---- MODULE Spec2Model ----
(***************************************************************************)
(* Legacy device manager of the dragonball VMM                             *)
(* (src/dragonball/src/device_manager/legacy.rs).                          *)
(*                                                                         *)
(* create_manager is modelled step by step: every collaborator call it     *)
(* makes (EventFd::new, EventFd::try_clone, IoManager::register_device_io, *)
(* VmFd::register_irqfd) is one step, and the `?` after each of them is    *)
(* the early return of the step.  Both cfg(target_arch) profiles are       *)
(* modelled; `arch` selects the one that is compiled in.                   *)
(***************************************************************************)
EXTENDS Integers, Sequences, FiniteSets, TLC

\* ------------------------------------------------------------------ bounds
MaxCalls == 2      \* create_manager calls made on the same bus
MaxForeign == 1    \* devices other code has put on the bus
MaxClones == 2     \* descriptors handed out by get_reset_eventfd
MaxWrites == 2     \* notifications raised on the event notifiers
MaxOps == 1        \* operations performed on the serial devices

\* ------------------------------------------------- constants of the source
I8042_DATA_PORT == 96
COM1_IRQ == 4
COM1_PORT1 == 1016
COM2_IRQ == 3
COM2_PORT1 == 760
COM_SIZE == 8
I8042_SIZE == 5

COM1 == "com1"
COM2 == "com2"
RTC == "rtc"
I8042 == "i8042"

VARIABLES
    arch,       \* "x86_64" or "aarch64": the profile compiled in
    vm_fd,      \* TRUE: create_manager gets Some(vm_fd), FALSE: None
    resources,  \* aarch64: the HashMap<String, DeviceResources> argument
    bus,        \* IoManager: set of [base, size, dev] registrations
    irqs,       \* VmFd: set of [irq, fd] irqfd bindings
    signals,    \* eventfd objects: signals[s] is the counter of object s
    devices,    \* live device objects: device id -> [fd |-> its notifier]
    pc,         \* <<device, step>> inside create_manager, Idle outside
    frame,      \* locals of the running create_manager call
    log,        \* collaborator calls made by the current call, in order
    pre,        \* bus and irq bindings at the entry of the current call
    ncall,      \* number of create_manager calls started
    result,     \* what the last call returned
    mgr,        \* the LegacyDeviceManager the caller holds
    exit_fds,   \* descriptors returned by get_reset_eventfd
    handles,    \* per execution context: the serial handle it was given
    at,         \* per execution context: "out", "waiting" or "in" the lock
    locked,     \* Mutex of each device: set of [dev, by] holdings
    regs        \* state of the device objects: device id -> operations seen

vars == <<arch, vm_fd, resources, bus, irqs, signals, devices, pc, frame,
          log, pre, ncall, result, mgr, exit_fds, handles, at, locked, regs>>

\* ------------------------------------------------------------ input domain
\* DeviceResources values offered to the aarch64 profile: one address range
\* and an optional legacy irq ({} is None).  Two of them overlap the first
\* two, one has no irq, one repeats the irq of another.
Descs ==
    { [base |-> 0,  size |-> 8, irq |-> {1}],
      [base |-> 8,  size |-> 8, irq |-> {2}],
      [base |-> 16, size |-> 8, irq |-> {3}],
      [base |-> 4,  size |-> 8, irq |-> {}],
      [base |-> 24, size |-> 8, irq |-> {1}] }

Keys == {COM1, COM2, RTC}

ResourceMaps == UNION { [S -> Descs] : S \in SUBSET Keys }

\* Ranges other users of the bus may hold: inside COM1, across the start of
\* COM2, port 0x64 of the i8042, and inside the third aarch64 range.
ForeignRanges ==
    { [base |-> 1023, size |-> 1],
      [base |-> 752,  size |-> 9],
      [base |-> 100,  size |-> 1],
      [base |-> 20,   size |-> 2] }

\* -------------------------------------------------------------- positions
Idle == <<"none", "idle">>
Crashed == <<"none", "crashed">>

NoDev == <<0, "none">>
Other == <<0, "other">>
NoDevices == [d \in {} |-> [fd |-> 0]]
Dev(name) == <<ncall, name>>

\* The execution contexts that use the serial devices after construction:
\* the bus-dispatch path and a background context.
Contexts == {"dispatch", "worker"}

NoHandle == [dev |-> NoDev, via |-> "none"]
NoRegs == [d \in {} |-> 0]

EmptyFrame == [eventfd |-> 0, com1 |-> 0, com2 |-> 0]

NoMgr ==
    [call |-> 0,
     i8042_reset_eventfd |-> 0,
     _rtc_device |-> NoDev, _rtc_eventfd |-> 0,
     com1_device |-> NoDev, _com1_eventfd |-> 0,
     com2_device |-> NoDev, _com2_eventfd |-> 0]

Errors == {"BusError", "EventFd", "IrqManager"}

\* ------------------------------------------------------------ collaborators
\* Two address ranges share at least one address.
Overlaps(r, s) == r.base < s.base + s.size /\ s.base < r.base + r.size

\* IoManager::register_device_io rejects a range overlapping a registered one.
BusCollides(r) == \E e \in bus : Overlaps(r, e)

BusInsert(d, r) == bus \cup {[base |-> r.base, size |-> r.size, dev |-> d]}

\* EventFd::new creates a new object; its descriptor is the object's index.
NewSignal == Len(signals) + 1

Record(dev, op, ok, line) ==
    Append(log, [dev |-> dev, op |-> op, ok |-> ok, line |-> line])

\* ---------------------------------------------------------------- Init
Init ==
    /\ arch \in {"x86_64", "aarch64"}
    /\ vm_fd \in BOOLEAN
    /\ resources \in IF arch = "aarch64" THEN ResourceMaps ELSE {<< >>}
    /\ bus = {}
    /\ irqs = {}
    /\ signals = << >>
    /\ devices = NoDevices
    /\ pc = Idle
    /\ frame = EmptyFrame
    /\ log = << >>
    /\ pre = [bus |-> {}, irqs |-> {}]
    /\ ncall = 0
    /\ result = "none"
    /\ mgr = NoMgr
    /\ exit_fds = << >>
    /\ handles = [t \in Contexts |-> NoHandle]
    /\ at = [t \in Contexts |-> "out"]
    /\ locked = {}
    /\ regs = NoRegs

inputs == <<arch, vm_fd, resources>>

\* What the users of the serial handles hold; create_manager and the
\* notifier operations leave it alone.
callers == <<handles, at, locked, regs>>

\* ------------------------------------------------ the `?` of a failed step
\* The call returns Err(kind): the locals of create_manager are dropped, and
\* nothing else is undone.
ReturnErr(kind) ==
    /\ result' = kind
    /\ pc' = Idle
    /\ frame' = EmptyFrame

\* unwrap() on None: the call panics and the thread unwinds.
Panic ==
    /\ result' = "panic"
    /\ pc' = Crashed
    /\ frame' = EmptyFrame

\* create_com_device returns Ok((device, eventfd)) into create_manager.
ComReturn(dev) ==
    IF dev = COM1
    THEN [frame EXCEPT !.com1 = frame.eventfd, !.eventfd = 0]
    ELSE [frame EXCEPT !.com2 = frame.eventfd, !.eventfd = 0]

\* `EventFd::new(libc::EFD_NONBLOCK).map_err(Error::EventFd)?`
StepEventFdNew(ok, next) ==
    /\ log' = Record(pc[1], "new", ok, {})
    /\ IF ok
       THEN /\ signals' = Append(signals, 0)
            /\ frame' = [frame EXCEPT !.eventfd = NewSignal]
            /\ pc' = next
            /\ UNCHANGED result
       ELSE /\ ReturnErr("EventFd")
            /\ UNCHANGED signals
    /\ UNCHANGED <<inputs, callers, bus, irqs, devices, pre, ncall, mgr, exit_fds>>

\* Mutant of StepTryClone: a failed duplication is not propagated and the
\* device is built without a notifier.
StepTryClone_Unchecked(ok, next) ==
    /\ log' = Record(pc[1], "clone", ok, {})
    /\ devices' = devices @@ (Dev(pc[1]) :> [fd |-> IF ok THEN frame.eventfd ELSE 0])
    /\ pc' = next
    /\ UNCHANGED <<result, frame>>
    /\ UNCHANGED <<inputs, callers, bus, irqs, signals, pre, ncall, mgr, exit_fds>>

\* `Arc::new(Mutex::new(Device::new(eventfd.try_clone().map_err(Error::EventFd)?)))`
\* The duplicate refers to the object of `eventfd`; the device keeps it.
StepTryClone(ok, next) ==
    /\ log' = Record(pc[1], "clone", ok, {})
    /\ IF ok
       THEN /\ devices' = devices @@ (Dev(pc[1]) :> [fd |-> frame.eventfd])
            /\ pc' = next
            /\ UNCHANGED <<result, frame>>
       ELSE /\ ReturnErr("EventFd")
            /\ UNCHANGED devices
    /\ UNCHANGED <<inputs, callers, bus, irqs, signals, pre, ncall, mgr, exit_fds>>

\* The device object is dropped when its last handle goes: a device that
\* never reached the bus dies with the locals of the failed call.
DropLocalDevice(d) == [x \in DOMAIN devices \ {d} |-> devices[x]]

\* Mutant of StepRegister: the bus error is mapped to the wrong variant.
StepRegister_WrongKind(r) ==
    /\ log' = Record(pc[1], "reg", ~BusCollides(r), {})
    /\ IF BusCollides(r)
       THEN /\ ReturnErr("EventFd")
            /\ devices' = DropLocalDevice(Dev(pc[1]))
            /\ UNCHANGED bus
       ELSE /\ bus' = BusInsert(Dev(pc[1]), r)
            /\ UNCHANGED devices
    /\ UNCHANGED <<inputs, callers, irqs, signals, pre, ncall, exit_fds>>

\* Mutant of StepRegister: a rejected registration takes the devices the
\* call has registered so far off the bus again.
StepRegister_Unwinds(r) ==
    /\ log' = Record(pc[1], "reg", ~BusCollides(r), {})
    /\ IF BusCollides(r)
       THEN /\ ReturnErr("BusError")
            /\ devices' = DropLocalDevice(Dev(pc[1]))
            /\ bus' = pre.bus
       ELSE /\ bus' = BusInsert(Dev(pc[1]), r)
            /\ UNCHANGED devices
    /\ UNCHANGED <<inputs, callers, irqs, signals, pre, ncall, exit_fds>>

\* Mutant of StepRegister: the bus reports the collision but keeps the
\* rejected device.
StepRegister_KeepsRejected(r) ==
    /\ log' = Record(pc[1], "reg", ~BusCollides(r), {})
    /\ IF BusCollides(r)
       THEN /\ ReturnErr("BusError")
            /\ bus' = BusInsert(Dev(pc[1]), r)
            /\ UNCHANGED devices
       ELSE /\ bus' = BusInsert(Dev(pc[1]), r)
            /\ UNCHANGED devices
    /\ UNCHANGED <<inputs, callers, irqs, signals, pre, ncall, exit_fds>>

\* `bus.register_device_io(device.clone(), &resources).map_err(Error::BusError)?`
\* The bus keeps the handle it is given.
StepRegister(r) ==
    /\ log' = Record(pc[1], "reg", ~BusCollides(r), {})
    /\ IF BusCollides(r)
       THEN /\ ReturnErr("BusError")
            /\ devices' = DropLocalDevice(Dev(pc[1]))
            /\ UNCHANGED bus
       ELSE /\ bus' = BusInsert(Dev(pc[1]), r)
            /\ UNCHANGED devices
    /\ UNCHANGED <<inputs, callers, irqs, signals, pre, ncall, exit_fds>>

\* Mutant of StepRegisterIrqfd: the call is recorded but nothing is bound.
StepRegisterIrqfd_NoBind(ok, irq) ==
    /\ log' = Record(pc[1], "irq", ok, {irq})
    /\ IF ok
       THEN UNCHANGED irqs
       ELSE /\ ReturnErr("IrqManager")
            /\ UNCHANGED irqs
    /\ UNCHANGED <<inputs, callers, bus, signals, devices, pre, ncall, mgr, exit_fds>>

\* `fd.register_irqfd(&eventfd, irq).map_err(Error::IrqManager)?`
StepRegisterIrqfd(ok, irq) ==
    /\ log' = Record(pc[1], "irq", ok, {irq})
    /\ IF ok
       THEN irqs' = irqs \cup {[irq |-> irq, fd |-> frame.eventfd]}
       ELSE /\ ReturnErr("IrqManager")
            /\ UNCHANGED irqs
    /\ UNCHANGED <<inputs, callers, bus, signals, devices, pre, ncall, mgr, exit_fds>>

\* Entry of create_manager.
StepEnter(first) ==
    /\ pc = Idle
    /\ ncall < MaxCalls
    /\ ncall' = ncall + 1
    /\ pc' = first
    /\ frame' = EmptyFrame
    /\ log' = << >>
    /\ pre' = [bus |-> bus, irqs |-> irqs]
    /\ result' = "none"
    /\ UNCHANGED <<inputs, callers, bus, irqs, signals, devices, mgr, exit_fds>>

\* ================================================================ x86_64
x86_64_create_manager ==
    /\ arch = "x86_64"
    /\ StepEnter(<<COM1, "new">>)

\* Mutant of x86_64_irq: both serial ports are given COM1's line.
x86_64_irq_SameLine(dev) == COM1_IRQ

\* Mutant of x86_64_port_base: both serial ports are given COM1's base.
x86_64_port_base_Same(dev) == COM1_PORT1

x86_64_port_base(dev) == IF dev = COM1 THEN COM1_PORT1 ELSE COM2_PORT1
x86_64_irq(dev) == IF dev = COM1 THEN COM1_IRQ ELSE COM2_IRQ
x86_64_after(dev) == IF dev = COM1 THEN <<COM2, "new">> ELSE <<I8042, "new">>

x86_64_com_resources(dev) == [base |-> x86_64_port_base(dev), size |-> COM_SIZE]

x86_64_create_com_device_new ==
    /\ arch = "x86_64"
    /\ pc[1] \in {COM1, COM2} /\ pc[2] = "new"
    /\ \E ok \in BOOLEAN : StepEventFdNew(ok, <<pc[1], "clone">>)

x86_64_create_com_device_clone ==
    /\ arch = "x86_64"
    /\ pc[1] \in {COM1, COM2} /\ pc[2] = "clone"
    /\ \E ok \in BOOLEAN : StepTryClone(ok, <<pc[1], "reg">>)

x86_64_create_com_device_register ==
    /\ arch = "x86_64"
    /\ pc[1] \in {COM1, COM2} /\ pc[2] = "reg"
    /\ StepRegister(x86_64_com_resources(pc[1]))
    /\ UNCHANGED mgr
    /\ ~BusCollides(x86_64_com_resources(pc[1])) =>
          /\ UNCHANGED result
          /\ IF vm_fd
             THEN /\ pc' = <<pc[1], "irq">>
                  /\ UNCHANGED frame
             ELSE /\ pc' = x86_64_after(pc[1])
                  /\ frame' = ComReturn(pc[1])

x86_64_create_com_device_irq ==
    /\ arch = "x86_64"
    /\ pc[1] \in {COM1, COM2} /\ pc[2] = "irq"
    /\ \E ok \in BOOLEAN :
          /\ StepRegisterIrqfd(ok, x86_64_irq(pc[1]))
          /\ ok => /\ pc' = x86_64_after(pc[1])
                   /\ frame' = ComReturn(pc[1])
                   /\ UNCHANGED result

\* Mutant of x86_64_i8042_new: the exit notifier is taken from COM1's
\* notifier instead of being created.
x86_64_i8042_new_Shared ==
    /\ arch = "x86_64"
    /\ pc = <<I8042, "new">>
    /\ log' = Record(I8042, "new", TRUE, {})
    /\ frame' = [frame EXCEPT !.eventfd = frame.com1]
    /\ pc' = <<I8042, "clone">>
    /\ UNCHANGED <<inputs, callers, bus, irqs, signals, devices, pre, ncall, result,
                   mgr, exit_fds>>

x86_64_i8042_new ==
    /\ arch = "x86_64"
    /\ pc = <<I8042, "new">>
    /\ \E ok \in BOOLEAN : StepEventFdNew(ok, <<I8042, "clone">>)

x86_64_i8042_clone ==
    /\ arch = "x86_64"
    /\ pc = <<I8042, "clone">>
    /\ \E ok \in BOOLEAN : StepTryClone(ok, <<I8042, "reg">>)

x86_64_i8042_resources == [base |-> I8042_DATA_PORT, size |-> I8042_SIZE]

x86_64_manager ==
    [NoMgr EXCEPT !.call = ncall,
                  !.i8042_reset_eventfd = frame.eventfd,
                  !.com1_device = Dev(COM1),
                  !._com1_eventfd = frame.com1,
                  !.com2_device = Dev(COM2),
                  !._com2_eventfd = frame.com2]

x86_64_i8042_register ==
    /\ arch = "x86_64"
    /\ pc = <<I8042, "reg">>
    /\ StepRegister(x86_64_i8042_resources)
    /\ IF BusCollides(x86_64_i8042_resources)
       THEN UNCHANGED mgr
       ELSE /\ mgr' = x86_64_manager
            /\ result' = "Ok"
            /\ pc' = Idle
            /\ frame' = EmptyFrame

\* Mutant of get_reset_eventfd: a new notifier is handed out instead of a
\* duplicate of the manager's.
get_reset_eventfd_Fresh ==
    /\ arch = "x86_64"
    /\ pc = Idle
    /\ mgr.call # 0
    /\ Len(exit_fds) < MaxClones
    /\ signals' = Append(signals, 0)
    /\ exit_fds' = Append(exit_fds, NewSignal)
    /\ UNCHANGED <<inputs, callers, bus, irqs, devices, pc, frame, log, pre, ncall,
                   result, mgr>>

\* Mutant of get_reset_eventfd: a failed duplication takes the i8042 off
\* the bus.
get_reset_eventfd_Unregisters ==
    /\ arch = "x86_64"
    /\ pc = Idle
    /\ mgr.call # 0
    /\ Len(exit_fds) < MaxClones
    /\ \E ok \in BOOLEAN :
          /\ exit_fds' = IF ok THEN Append(exit_fds, mgr.i8042_reset_eventfd)
                               ELSE exit_fds
          /\ bus' = IF ok THEN bus
                          ELSE {e \in bus : e.dev # <<mgr.call, I8042>>}
    /\ UNCHANGED <<inputs, callers, irqs, signals, devices, pc, frame, log, pre,
                   ncall, result, mgr>>

\* get_reset_eventfd: a duplicate of the manager's exit notifier, or
\* Err(EventFd) when the duplication fails.
get_reset_eventfd ==
    /\ arch = "x86_64"
    /\ pc = Idle
    /\ mgr.call # 0
    /\ Len(exit_fds) < MaxClones
    /\ \E ok \in BOOLEAN :
          exit_fds' = IF ok THEN Append(exit_fds, mgr.i8042_reset_eventfd)
                            ELSE exit_fds
    /\ UNCHANGED <<inputs, callers, bus, irqs, signals, devices, pc, frame, log, pre,
                   ncall, result, mgr>>

\* =============================================================== aarch64
aarch64_create_manager ==
    /\ arch = "aarch64"
    /\ StepEnter(<<COM1, "get">>)

aarch64_after(dev) == IF dev = COM1 THEN <<COM2, "get">> ELSE <<RTC, "get">>

\* resources.get_all_resources(): the address range of the descriptor.
get_all_resources(dev) ==
    [base |-> resources[dev].base, size |-> resources[dev].size]

\* resources.get_legacy_irq(): Some(irq) or None, as a set.
get_legacy_irq(dev) == resources[dev].irq

\* `resources.get(KEY).unwrap()`, evaluated as the argument of the factory.
aarch64_resources_get ==
    /\ arch = "aarch64"
    /\ pc[2] = "get"
    /\ IF pc[1] \in DOMAIN resources
       THEN /\ pc' = <<pc[1], "new">>
            /\ UNCHANGED <<result, frame>>
       ELSE Panic
    /\ UNCHANGED <<inputs, callers, bus, irqs, signals, devices, log, pre, ncall, mgr,
                   exit_fds>>

aarch64_create_com_device_new ==
    /\ arch = "aarch64"
    /\ pc[1] \in {COM1, COM2} /\ pc[2] = "new"
    /\ \E ok \in BOOLEAN : StepEventFdNew(ok, <<pc[1], "clone">>)

aarch64_create_com_device_clone ==
    /\ arch = "aarch64"
    /\ pc[1] \in {COM1, COM2} /\ pc[2] = "clone"
    /\ \E ok \in BOOLEAN : StepTryClone(ok, <<pc[1], "reg">>)

aarch64_create_com_device_register ==
    /\ arch = "aarch64"
    /\ pc[1] \in {COM1, COM2} /\ pc[2] = "reg"
    /\ StepRegister(get_all_resources(pc[1]))
    /\ UNCHANGED mgr
    /\ ~BusCollides(get_all_resources(pc[1])) =>
          /\ UNCHANGED result
          /\ IF vm_fd
             THEN /\ pc' = <<pc[1], "irq">>
                  /\ UNCHANGED frame
             ELSE /\ pc' = aarch64_after(pc[1])
                  /\ frame' = ComReturn(pc[1])

\* `let irq = resources.get_legacy_irq().unwrap(); fd.register_irqfd(..)?`
aarch64_create_com_device_irq ==
    /\ arch = "aarch64"
    /\ pc[1] \in {COM1, COM2} /\ pc[2] = "irq"
    /\ IF get_legacy_irq(pc[1]) = {}
       THEN /\ Panic
            /\ UNCHANGED <<inputs, callers, bus, irqs, signals, devices, log, pre,
                           ncall, mgr, exit_fds>>
       ELSE \E ok \in BOOLEAN, irq \in get_legacy_irq(pc[1]) :
               /\ StepRegisterIrqfd(ok, irq)
               /\ ok => /\ pc' = aarch64_after(pc[1])
                        /\ frame' = ComReturn(pc[1])
                        /\ UNCHANGED result

aarch64_create_rtc_device_new ==
    /\ arch = "aarch64"
    /\ pc = <<RTC, "new">>
    /\ \E ok \in BOOLEAN : StepEventFdNew(ok, <<RTC, "build">>)

\* `Arc::new(Mutex::new(RTCDevice::new()))`: the clock is built without a
\* notifier.
aarch64_create_rtc_device_build ==
    /\ arch = "aarch64"
    /\ pc = <<RTC, "build">>
    /\ devices' = devices @@ (Dev(RTC) :> [fd |-> 0])
    /\ pc' = <<RTC, "reg">>
    /\ UNCHANGED <<inputs, callers, bus, irqs, signals, frame, log, pre, ncall, result,
                   mgr, exit_fds>>

aarch64_manager ==
    [NoMgr EXCEPT !.call = ncall,
                  !._rtc_device = Dev(RTC),
                  !._rtc_eventfd = frame.eventfd,
                  !.com1_device = Dev(COM1),
                  !._com1_eventfd = frame.com1,
                  !.com2_device = Dev(COM2),
                  !._com2_eventfd = frame.com2]

\* create_rtc_device returns Ok and create_manager returns the manager.
aarch64_return_ok ==
    /\ mgr' = aarch64_manager
    /\ result' = "Ok"
    /\ pc' = Idle
    /\ frame' = EmptyFrame

aarch64_create_rtc_device_register ==
    /\ arch = "aarch64"
    /\ pc = <<RTC, "reg">>
    /\ StepRegister(get_all_resources(RTC))
    /\ IF BusCollides(get_all_resources(RTC))
       THEN UNCHANGED mgr
       ELSE IF vm_fd
            THEN /\ pc' = <<RTC, "irq">>
                 /\ UNCHANGED <<result, frame, mgr>>
            ELSE aarch64_return_ok

aarch64_create_rtc_device_irq ==
    /\ arch = "aarch64"
    /\ pc = <<RTC, "irq">>
    /\ IF get_legacy_irq(RTC) = {}
       THEN /\ Panic
            /\ UNCHANGED <<inputs, callers, bus, irqs, signals, devices, log, pre,
                           ncall, mgr, exit_fds>>
       ELSE \E ok \in BOOLEAN, irq \in get_legacy_irq(RTC) :
               /\ log' = Record(RTC, "irq", ok, {irq})
               /\ IF ok
                  THEN /\ irqs' = irqs \cup {[irq |-> irq, fd |-> frame.eventfd]}
                       /\ aarch64_return_ok
                  ELSE /\ ReturnErr("IrqManager")
                       /\ UNCHANGED <<irqs, mgr>>
               /\ UNCHANGED <<inputs, callers, bus, signals, devices, pre, ncall,
                              exit_fds>>

\* ====================================================== the environment
\* Mutant of drop_manager: dropping the manager takes its devices off the bus.
drop_manager_Unregisters ==
    /\ pc = Idle
    /\ mgr.call # 0
    /\ mgr' = NoMgr
    /\ bus' = {e \in bus : e.dev \notin {mgr.com1_device, mgr.com2_device,
                                         mgr._rtc_device, <<mgr.call, I8042>>}}
    /\ UNCHANGED <<inputs, callers, irqs, signals, devices, pc, frame, log, pre, ncall,
                   result, exit_fds>>

\* The caller drops the manager: its fields (two or three device handles and
\* the notifiers) are released.  The struct has no Drop impl and the bus
\* holds its own handles, so nothing is unregistered.
drop_manager ==
    /\ pc = Idle
    /\ mgr.call # 0
    /\ mgr' = NoMgr
    /\ UNCHANGED <<inputs, callers, bus, irqs, signals, devices, pc, frame, log, pre,
                   ncall, result, exit_fds>>

\* Other code has registered a device of its own on the bus before the
\* legacy devices are created.
register_foreign ==
    /\ pc = Idle
    /\ ncall = 0
    /\ Cardinality({e \in bus : e.dev = Other}) < MaxForeign
    /\ \E r \in ForeignRanges :
          /\ ~BusCollides(r)
          /\ bus' = BusInsert(Other, r)
    /\ UNCHANGED <<inputs, callers, irqs, signals, devices, pc, frame, log, pre, ncall,
                   result, mgr, exit_fds>>

RECURSIVE Total(_)
Total(q) == IF q = << >> THEN 0 ELSE Head(q) + Total(Tail(q))

\* Descriptors somebody still holds: the manager's, the devices', and the
\* ones get_reset_eventfd handed out.
OpenFds ==
    ({mgr.i8042_reset_eventfd, mgr._rtc_eventfd, mgr._com1_eventfd,
      mgr._com2_eventfd}
     \cup {devices[d].fd : d \in DOMAIN devices}
     \cup {exit_fds[i] : i \in DOMAIN exit_fds}) \ {0}

\* What a read through descriptor fd sees: the counter of its object.
Observe(fd) == signals[fd]

\* A notification is raised through descriptor fd (EventFd::write).  The
\* guest and the exit watcher run only once a manager has been built.
write ==
    /\ pc = Idle
    /\ result = "Ok"
    /\ Total(signals) < MaxWrites
    /\ \E fd \in OpenFds : signals' = [signals EXCEPT ![fd] = @ + 1]
    /\ UNCHANGED <<inputs, callers, bus, irqs, devices, pc, frame, log, pre, ncall,
                   result, mgr, exit_fds>>

\* ================================================== the serial handles
\* Mutant of get_com1_serial: the accessor hands out a copy of the device.
get_com1_serial_Copy ==
    /\ pc = Idle
    /\ mgr.call # 0
    /\ \E t \in Contexts :
          /\ at[t] = "out"
          /\ handles' = [handles EXCEPT
                            ![t] = [dev |-> <<mgr.call, "copy">>, via |-> COM1]]
    /\ UNCHANGED <<inputs, bus, irqs, signals, devices, pc, frame, log, pre,
                   ncall, result, mgr, exit_fds, at, locked, regs>>

\* get_com1_serial: `self.com1_device.clone()`, another handle of the
\* manager's COM1 device; `via` remembers which accessor returned it.
get_com1_serial ==
    /\ pc = Idle
    /\ mgr.call # 0
    /\ \E t \in Contexts :
          /\ at[t] = "out"
          /\ handles' = [handles EXCEPT
                            ![t] = [dev |-> mgr.com1_device, via |-> COM1]]
    /\ UNCHANGED <<inputs, bus, irqs, signals, devices, pc, frame, log, pre,
                   ncall, result, mgr, exit_fds, at, locked, regs>>

\* Mutant of get_com2_serial: the accessor returns the COM1 device.
get_com2_serial_Com1 ==
    /\ pc = Idle
    /\ mgr.call # 0
    /\ \E t \in Contexts :
          /\ at[t] = "out"
          /\ handles' = [handles EXCEPT
                            ![t] = [dev |-> mgr.com1_device, via |-> COM2]]
    /\ UNCHANGED <<inputs, bus, irqs, signals, devices, pc, frame, log, pre,
                   ncall, result, mgr, exit_fds, at, locked, regs>>

\* get_com2_serial: `self.com2_device.clone()`.
get_com2_serial ==
    /\ pc = Idle
    /\ mgr.call # 0
    /\ \E t \in Contexts :
          /\ at[t] = "out"
          /\ handles' = [handles EXCEPT
                            ![t] = [dev |-> mgr.com2_device, via |-> COM2]]
    /\ UNCHANGED <<inputs, bus, irqs, signals, devices, pc, frame, log, pre,
                   ncall, result, mgr, exit_fds, at, locked, regs>>

\* The Mutex of device d is free.
Free(d) == \A l \in locked : l.dev # d

\* What the device behind handle d has seen so far.
DevState(d) == IF d \in DOMAIN regs THEN regs[d] ELSE 0

RECURSIVE Sum(_, _)
Sum(f, S) ==
    IF S = {} THEN 0
    ELSE LET x == CHOOSE y \in S : TRUE IN f[x] + Sum(f, S \ {x})

\* A context calls lock() on its handle and waits for the Mutex.
lock_request ==
    /\ pc = Idle
    /\ \E t \in Contexts :
          /\ at[t] = "out"
          /\ handles[t] # NoHandle
          /\ at' = [at EXCEPT ![t] = "waiting"]
    /\ UNCHANGED <<inputs, bus, irqs, signals, devices, pc, frame, log, pre,
                   ncall, result, mgr, exit_fds, handles, locked, regs>>

\* lock() returns once the Mutex of the handle's device is free.
lock_acquire ==
    /\ pc = Idle
    /\ \E t \in Contexts :
          /\ at[t] = "waiting"
          /\ Free(handles[t].dev)
          /\ locked' = locked \cup {[dev |-> handles[t].dev, by |-> t]}
          /\ at' = [at EXCEPT ![t] = "in"]
    /\ UNCHANGED <<inputs, bus, irqs, signals, devices, pc, frame, log, pre,
                   ncall, result, mgr, exit_fds, handles, regs>>

\* The holder of the guard changes the state of the device.
operate ==
    /\ pc = Idle
    /\ Sum(regs, DOMAIN regs) < MaxOps
    /\ \E t \in Contexts :
          /\ at[t] = "in"
          /\ regs' = (handles[t].dev :> DevState(handles[t].dev) + 1) @@ regs
    /\ UNCHANGED <<inputs, bus, irqs, signals, devices, pc, frame, log, pre,
                   ncall, result, mgr, exit_fds, handles, at, locked>>

\* The guard is dropped.
unlock ==
    /\ pc = Idle
    /\ \E t \in Contexts :
          /\ at[t] = "in"
          /\ locked' = {l \in locked : l.by # t}
          /\ at' = [at EXCEPT ![t] = "out"]
    /\ UNCHANGED <<inputs, bus, irqs, signals, devices, pc, frame, log, pre,
                   ncall, result, mgr, exit_fds, handles, regs>>

Next ==
    \/ x86_64_create_manager
    \/ x86_64_create_com_device_new
    \/ x86_64_create_com_device_clone
    \/ x86_64_create_com_device_register
    \/ x86_64_create_com_device_irq
    \/ x86_64_i8042_new
    \/ x86_64_i8042_clone
    \/ x86_64_i8042_register
    \/ get_reset_eventfd
    \/ aarch64_create_manager
    \/ aarch64_resources_get
    \/ aarch64_create_com_device_new
    \/ aarch64_create_com_device_clone
    \/ aarch64_create_com_device_register
    \/ aarch64_create_com_device_irq
    \/ aarch64_create_rtc_device_new
    \/ aarch64_create_rtc_device_build
    \/ aarch64_create_rtc_device_register
    \/ aarch64_create_rtc_device_irq
    \/ drop_manager
    \/ register_foreign
    \/ write

Spec == Init /\ [][Next]_vars

\* create_manager followed by the use of the manager's accessors and of the
\* handles they return.
NextHandles ==
    \/ x86_64_create_manager
    \/ x86_64_create_com_device_new
    \/ x86_64_create_com_device_clone
    \/ x86_64_create_com_device_register
    \/ x86_64_create_com_device_irq
    \/ x86_64_i8042_new
    \/ x86_64_i8042_clone
    \/ x86_64_i8042_register
    \/ aarch64_create_manager
    \/ aarch64_resources_get
    \/ aarch64_create_com_device_new
    \/ aarch64_create_com_device_clone
    \/ aarch64_create_com_device_register
    \/ aarch64_create_com_device_irq
    \/ aarch64_create_rtc_device_new
    \/ aarch64_create_rtc_device_build
    \/ aarch64_create_rtc_device_register
    \/ aarch64_create_rtc_device_irq
    \/ get_com1_serial
    \/ get_com2_serial
    \/ get_reset_eventfd
    \/ lock_request
    \/ lock_acquire
    \/ operate
    \/ unlock

SpecHandles == Init /\ [][NextHandles]_vars

\* ================================================================ claims
\* The step in which the running create_manager call returns `kinds`.
Returns(kinds) == pc # Idle /\ pc' = Idle /\ result' \in kinds

\* The address range create_manager registers for device `dev`.
RangeOf(dev) ==
    IF arch = "x86_64"
    THEN IF dev = I8042 THEN x86_64_i8042_resources
                        ELSE x86_64_com_resources(dev)
    ELSE get_all_resources(dev)

Last(q) == q[Len(q)]

\* C1: when create_manager returns an error, the ranges registered on the
\* bus and the irq bindings of the hypervisor handle are the same as before
\* the call.
C1_FailedCallLeavesNoTrace ==
    [][Returns(Errors) => (bus' = pre.bus /\ irqs' = pre.irqs)]_vars

\* C2: a registration step of create_manager whose range overlaps a range
\* already on the bus (put there before the call or by an earlier device of
\* the same call) ends the call with Error::BusError: no manager is returned
\* and the colliding device is not registered.
C2_CollisionIsBusError ==
    [][(pc[2] = "reg" /\ BusCollides(RangeOf(pc[1])))
          => (Returns({"BusError"}) /\ mgr' = mgr /\ bus' = bus)]_vars

\* C2 witness: a call entered on an empty bus has returned BusError, so one
\* of its devices collided with an earlier device of the same call.
C2_Witness ==
    /\ pc = Idle
    /\ result = "BusError"
    /\ pre.bus = {}
    /\ \E e \in bus : e.dev[1] = ncall

\* ---------------------------------------------------------------- C3
\* The devices create_manager builds on the profile compiled in.
Built == IF arch = "x86_64" THEN {COM1, COM2, I8042} ELSE {COM1, COM2, RTC}

\* Device `dev` declares an interrupt line.
DeclaresIrq(dev) ==
    IF arch = "x86_64"
    THEN dev \in {COM1, COM2}
    ELSE dev \in DOMAIN resources /\ get_legacy_irq(dev) # {}

DeclaredLine(dev) ==
    IF arch = "x86_64" THEN x86_64_irq(dev)
    ELSE CHOOSE irq \in get_legacy_irq(dev) : TRUE

\* Positions in the log of the irq-binding calls, all or for one device.
IrqCalls == {i \in DOMAIN log : log[i].op = "irq"}
IrqCallsFor(dev) == {i \in IrqCalls : log[i].dev = dev}

OneBindingPerDevice ==
    \A dev \in Built :
        IF DeclaresIrq(dev)
        THEN \E i \in IrqCalls :
                /\ IrqCallsFor(dev) = {i}
                /\ log[i].line = {DeclaredLine(dev)}
        ELSE IrqCallsFor(dev) = {}

NoLineBoundTwice ==
    \A i, j \in IrqCalls : i # j => log[i].line # log[j].line

FixedLayoutBindings ==
    arch = "x86_64" =>
        /\ Cardinality(IrqCalls) = 2
        /\ \E i, j \in IrqCalls :
              /\ i < j
              /\ log[i].dev = COM1 /\ log[i].line = {4}
              /\ log[j].dev = COM2 /\ log[j].line = {3}

\* Every bus registration (hence every notifier step) of the call succeeded.
AllRegistered ==
    \A dev \in Built :
        \E i \in DOMAIN log : log[i].dev = dev /\ log[i].op = "reg" /\ log[i].ok

NoHandleCase ==
    ~vm_fd => /\ IrqCalls = {}
              /\ (pc \in {Idle, Crashed} /\ AllRegistered) => result = "Ok"

\* The descriptors of the resource map declare pairwise distinct lines.
DistinctLines ==
    \A d, e \in DOMAIN resources :
        d # e => get_legacy_irq(d) \cap get_legacy_irq(e) = {}

\* C3 as stated: a successful call with a handle makes exactly one binding
\* call per device declaring a line and binds no line twice (x86_64: COM1 on
\* 4, then COM2 on 3, none for the i8042); with no handle no binding call is
\* made and the call succeeds when the bus and notifier steps succeed.
C3_OneBindingPerLine ==
    /\ (pc = Idle /\ result = "Ok" /\ vm_fd) =>
          /\ OneBindingPerDevice
          /\ NoLineBoundTwice
          /\ FixedLayoutBindings
    /\ NoHandleCase

\* C3 amended: as C3, but a line is bound once only when the descriptors
\* declare distinct lines (always so on x86_64): on aarch64 two devices whose
\* descriptors name the same line get one binding call each on that line.
C3_OneBindingPerDevice ==
    /\ (pc = Idle /\ result = "Ok" /\ vm_fd) =>
          /\ OneBindingPerDevice
          /\ DistinctLines => NoLineBoundTwice
          /\ FixedLayoutBindings
    /\ NoHandleCase

\* C3 witness: a successful aarch64 call with a handle whose COM1 and clock
\* descriptors declare the same line.
C3_Witness ==
    /\ pc = Idle /\ result = "Ok" /\ vm_fd
    /\ arch = "aarch64"
    /\ get_legacy_irq(COM1) = get_legacy_irq(RTC)
    /\ Cardinality(IrqCalls) = 3

\* ---------------------------------------------------------------- C4
\* C4: on aarch64 a resource map lacking "com1", "com2" or "rtc" makes
\* create_manager return a defined error, never panic.
C4_MissingKeyIsAnError ==
    (arch = "aarch64" /\ ~(Keys \subseteq DOMAIN resources)
        /\ ncall > 0 /\ pc \in {Idle, Crashed})
    => result \in Errors

\* ---------------------------------------------------------------- C5
\* The notifier the manager retains for `dev`.
Notifier(dev) ==
    IF dev = COM1 THEN mgr._com1_eventfd
    ELSE IF dev = COM2 THEN mgr._com2_eventfd
    ELSE IF dev = RTC THEN mgr._rtc_eventfd
    ELSE mgr.i8042_reset_eventfd

Registered(dev) ==
    [base |-> RangeOf(dev).base, size |-> RangeOf(dev).size, dev |-> Dev(dev)]
        \in bus

Bound(dev) ==
    [irq |-> DeclaredLine(dev), fd |-> Notifier(dev)] \in irqs

\* C5: when create_manager has returned Ok, the ranges of COM1, COM2 and the
\* i8042 (or clock) are on the bus for the devices of that call, and with a
\* hypervisor handle every declared line is bound to the notifier the
\* manager retains for the device.
C5_FullyWired ==
    (pc = Idle /\ result = "Ok" /\ mgr.call = ncall) =>
        \A dev \in Built :
            /\ Registered(dev)
            /\ (vm_fd /\ DeclaresIrq(dev)) => Bound(dev)

\* C5 witness: a manager returned by a call with a hypervisor handle.
C5_Witness ==
    /\ pc = Idle /\ result = "Ok" /\ mgr.call = ncall /\ vm_fd
    /\ \A dev \in Built : Registered(dev)

\* ---------------------------------------------------------------- C6
KindOf(op) ==
    IF op \in {"new", "clone"} THEN "EventFd"
    ELSE IF op = "reg" THEN "BusError"
    ELSE "IrqManager"

\* C6: create_manager stops at its first failing step with that step's
\* error kind: a failed step is the last call the log holds (nothing runs
\* after it, nothing is tried twice), the result is EventFd for a notifier
\* step, BusError for a registration, IrqManager for a binding, and the call
\* returns no manager; an error is returned only for a failed step.
C6_FirstFailureIsReturned ==
    /\ \A i \in DOMAIN log : ~log[i].ok => i = Len(log)
    /\ \A i, j \in DOMAIN log :
          (log[i].dev = log[j].dev /\ log[i].op = log[j].op) => i = j
    /\ (log # << >> /\ ~Last(log).ok) =>
          /\ pc = Idle
          /\ result = KindOf(Last(log).op)
          /\ mgr.call # ncall
    /\ result \in Errors =>
          /\ log # << >>
          /\ ~Last(log).ok
          /\ result = KindOf(Last(log).op)

\* C6 witness: a call with a hypervisor handle has failed at the irq binding
\* of COM2, after six successful steps.
C6_Witness ==
    /\ pc = Idle /\ result = "IrqManager"
    /\ Len(log) > 6
    /\ Last(log).dev = COM2 /\ ~Last(log).ok

\* ---------------------------------------------------------------- C7
\* The registration the bus holds for device `dev` of the running call.
EntriesOf(dev) == {[base |-> e.base, size |-> e.size] : e \in {x \in bus : x.dev = Dev(dev)}}

RegisteredOk(dev) ==
    \E i \in DOMAIN log : log[i].dev = dev /\ log[i].op = "reg" /\ log[i].ok

IrqLines(dev) == UNION {log[i].line : i \in IrqCallsFor(dev)}

\* C7: on x86_64 create_manager registers COM1 as 8 ports from 0x3f8 with
\* line 4, COM2 as 8 ports from 0x2f8 with line 3 and the i8042 as 5 ports
\* from 0x60 (and no line); the three ranges are pairwise disjoint, and a
\* call entered on an empty bus never returns BusError.
C7_FixedLayout ==
    arch = "x86_64" =>
        /\ RegisteredOk(COM1) => EntriesOf(COM1) = {[base |-> 1016, size |-> 8]}
        /\ RegisteredOk(COM2) => EntriesOf(COM2) = {[base |-> 760, size |-> 8]}
        /\ RegisteredOk(I8042) => EntriesOf(I8042) = {[base |-> 96, size |-> 5]}
        /\ IrqLines(COM1) \subseteq {4}
        /\ IrqLines(COM2) \subseteq {3}
        /\ IrqLines(I8042) = {}
        /\ \A d, e \in Built : d # e => ~Overlaps(RangeOf(d), RangeOf(e))
        /\ pre.bus = {} => result # "BusError"

\* C7 witness: a successful x86_64 call with a handle, entered on an empty
\* bus, has registered the three ranges and bound the two lines.
C7_Witness ==
    /\ arch = "x86_64" /\ vm_fd /\ pc = Idle /\ result = "Ok"
    /\ pre.bus = {}
    /\ IrqLines(COM1) = {4} /\ IrqLines(COM2) = {3}
    /\ \A dev \in Built : RegisteredOk(dev)

\* ---------------------------------------------------------------- C8
ManagerNotifiers ==
    <<mgr.i8042_reset_eventfd, mgr._com1_eventfd, mgr._com2_eventfd>>

\* A manager built on x86_64 with no hypervisor handle is in the caller's
\* hands.
NoHandleManager ==
    arch = "x86_64" /\ ~vm_fd /\ pc = Idle /\ result = "Ok" /\ mgr.call = ncall

Pairwise(P(_, _)) == \A i, j \in 1..3 : i # j => P(i, j)

DistinctNotifiers ==
    /\ \A i \in 1..3 : ManagerNotifiers[i] \in DOMAIN signals
    /\ Pairwise(LAMBDA i, j : ManagerNotifiers[i] # ManagerNotifiers[j])

\* C8: after a successful x86_64 create_manager with no hypervisor handle,
\* the exit notifier, COM1's and COM2's notifier are three different
\* objects: a notification that changes what one of them observes changes
\* nothing the other two observe.
C8_NotifiersAreDistinct ==
    [][(NoHandleManager => DistinctNotifiers)
       /\ (NoHandleManager' => DistinctNotifiers')
       /\ ((NoHandleManager /\ NoHandleManager') =>
             Pairwise(LAMBDA i, j :
                 Observe(ManagerNotifiers[i])' # Observe(ManagerNotifiers[i])
                     => Observe(ManagerNotifiers[j])' = Observe(ManagerNotifiers[j])))
      ]_vars

\* C8 witness: such a manager exists and a notification has been raised
\* through its exit notifier only.
C8_Witness ==
    /\ NoHandleManager
    /\ Observe(mgr.i8042_reset_eventfd) = 1
    /\ Observe(mgr._com1_eventfd) = 0
    /\ Observe(mgr._com2_eventfd) = 0

\* ---------------------------------------------------------------- C9
\* The descriptors of the exit signal: the manager's, the i8042 device's and
\* the ones get_reset_eventfd returned.
ExitDescriptors ==
    {mgr.i8042_reset_eventfd : x \in {c \in {mgr.call} : c # 0 /\ arch = "x86_64"}}
    \cup {devices[d].fd : d \in {x \in DOMAIN devices : x[2] = I8042}}
    \cup {exit_fds[i] : i \in DOMAIN exit_fds}

\* get_reset_eventfd has just returned Ok(fd).
Handed == Len(exit_fds') = Len(exit_fds) + 1

\* C9: every descriptor get_reset_eventfd returns refers to the exit signal
\* the manager retains and the i8042 device was built with, so a
\* notification raised through one descriptor of the exit signal is observed
\* through all of them, however many have been returned; the call leaves the
\* manager, and so its own descriptor, as it was.
C9_ExitSignalIsShared ==
    [][/\ Cardinality(ExitDescriptors') <= 1
       /\ \A a, b \in ExitDescriptors \cap ExitDescriptors' :
             Observe(a)' - Observe(a) = Observe(b)' - Observe(b)
       /\ Handed =>
             /\ mgr' = mgr
             /\ mgr.i8042_reset_eventfd \in DOMAIN signals
             /\ Last(exit_fds') = mgr.i8042_reset_eventfd
             /\ Last(exit_fds') = devices[<<mgr.call, I8042>>].fd
      ]_vars

\* C9 witness: two descriptors have been returned and a notification has
\* been raised on the exit signal.
C9_Witness ==
    /\ Len(exit_fds) = 2
    /\ mgr.call # 0
    /\ Observe(exit_fds[1]) > 0
    /\ Observe(exit_fds[2]) = Observe(mgr.i8042_reset_eventfd)

\* --------------------------------------------------------------- C10
\* The manager is dropped in this step.
Dropped == mgr.call # 0 /\ mgr'.call = 0

ManagerDevices ==
    {mgr.com1_device, mgr.com2_device,
     IF arch = "x86_64" THEN <<mgr.call, I8042>> ELSE mgr._rtc_device}

\* C10 as stated: once the manager is dropped the bus no longer holds the
\* ranges of its devices.
C10_DropReleasesBus ==
    [][Dropped => \A e \in bus' : e.dev \notin ManagerDevices]_vars

\* C10 amended: dropping the manager releases no bus registration: the bus
\* holds its own handle of every device, so the ranges of COM1, COM2 and the
\* i8042 (or clock) are all still registered after the drop.
C10_DropKeepsBus ==
    [][Dropped =>
          /\ bus' = bus
          /\ \A d \in ManagerDevices : \E e \in bus' : e.dev = d
          /\ \A d \in ManagerDevices : d \in DOMAIN devices'
      ]_vars

\* C10 witness: a manager was returned and has been dropped, and the bus
\* still holds the three devices of that call.
C10_Witness ==
    /\ pc = Idle /\ result = "Ok" /\ mgr.call = 0
    /\ Cardinality({e \in bus : e.dev[1] = ncall}) = 3

\* --------------------------------------------------------------- C11
\* The context holding the lock of device d, as a set.
Holders(d) == {t \in Contexts : at[t] = "in" /\ handles[t].dev = d}

\* C11: two contexts working through serial handles of a built manager: at
\* most one context is inside the critical section of a device; a context on
\* COM1 and a context on COM2 use different locks, so a context waiting for
\* a lock is held up only by a context inside the critical section of the
\* same port, which can always leave it (no context waits while holding a
\* lock, so no deadlock); every lock taken belongs to exactly its holder.
C11_IndependentLocks ==
    /\ \A d \in {handles[t].dev : t \in Contexts} : Cardinality(Holders(d)) <= 1
    /\ \A t, u \in Contexts :
          (handles[t].via = COM1 /\ handles[u].via = COM2)
              => handles[t].dev # handles[u].dev
    /\ \A t \in Contexts :
          (at[t] = "waiting" /\ ~Free(handles[t].dev)) =>
              \E u \in Contexts \ {t} :
                  /\ at[u] = "in"
                  /\ handles[u].via = handles[t].via
    /\ locked = {[dev |-> handles[t].dev, by |-> t] :
                     t \in {u \in Contexts : at[u] = "in"}}

\* C11 witness: one context is inside COM1's critical section and the other
\* inside COM2's at the same time, and one of them has operated on its port.
C11_Witness ==
    /\ \A t \in Contexts : at[t] = "in"
    /\ {handles[t].via : t \in Contexts} = {COM1, COM2}
    /\ Sum(regs, DOMAIN regs) = 1
    /\ pc = Idle /\ result = "Ok"

\* --------------------------------------------------------------- C12
\* The device the bus holds at the range of serial port `via`, as a set.
BusHandle(via) ==
    {e.dev : e \in {x \in bus : /\ x.base = RangeOf(via).base
                                /\ x.size = RangeOf(via).size}}

\* Every handle a context holds is the device on the bus at the range of
\* its port and the manager's device of that port; handles of one port are
\* one device, handles of the two ports are two.
SameObject ==
    /\ \A t \in Contexts :
          handles[t] # NoHandle =>
              /\ BusHandle(handles[t].via) = {handles[t].dev}
              /\ handles[t].dev \in DOMAIN devices
              /\ handles[t].dev =
                     IF handles[t].via = COM1 THEN mgr.com1_device
                                              ELSE mgr.com2_device
    /\ \A t, u \in Contexts :
          (handles[t] # NoHandle /\ handles[u] # NoHandle) =>
              (handles[t].via = handles[u].via
                   <=> handles[t].dev = handles[u].dev)

\* C12: a handle returned by get_com1_serial (get_com2_serial) is the device
\* the bus holds at the COM1 (COM2) range and the one the manager holds, not
\* a copy: handles returned by the same accessor are the same device,
\* handles of the two accessors are different devices, and an operation made
\* through a handle changes the state read through the bus's handle and
\* through every handle of that port.
C12_HandleIsTheBusDevice ==
    [][/\ SameObject'
       /\ \A t \in Contexts :
             (at[t] = "in" /\ handles' = handles
                 /\ DevState(handles[t].dev)' # DevState(handles[t].dev)) =>
                 /\ BusHandle(handles[t].via) # {}
                 /\ \A d \in BusHandle(handles[t].via) :
                        DevState(d)' = DevState(d) + 1
                 /\ \A u \in Contexts :
                        handles[u].via = handles[t].via =>
                            DevState(handles[u].dev)' = DevState(handles[u].dev) + 1
      ]_vars

\* C12 witness: both contexts hold a COM1 handle, one of them has operated
\* on the port and the state it left is read through the bus's handle and
\* the other context's handle.
C12_Witness ==
    /\ \A t \in Contexts : handles[t].via = COM1
    /\ \A d \in BusHandle(COM1) : DevState(d) = 1
    /\ \A t \in Contexts : DevState(handles[t].dev) = 1
    /\ BusHandle(COM1) # {}

\* --------------------------------------------------------------- C13
\* A step made while a manager exists and no create_manager call is running:
\* a call of an accessor, or the use of a handle.
ManagerStep == pc = Idle /\ pc' = Idle /\ mgr.call # 0

\* C13: once create_manager has returned a manager, get_com1_serial,
\* get_com2_serial and get_reset_eventfd (failing or not) leave the bus
\* registrations, the irq bindings and the manager's devices unchanged.
C13_AccessorsChangeNothing ==
    [][ManagerStep =>
          /\ bus' = bus
          /\ irqs' = irqs
          /\ mgr' = mgr
          /\ devices' = devices
      ]_vars

\* C13 witness: both serial accessors and get_reset_eventfd have been called
\* on a manager whose three devices are on the bus.
C13_Witness ==
    /\ pc = Idle /\ result = "Ok" /\ mgr.call = ncall
    /\ {handles[t].via : t \in Contexts} = {COM1, COM2}
    /\ Len(exit_fds) > 0
    /\ \A dev \in Built : Registered(dev)

\* --------------------------------------------------------------- C14
\* The positions of the log holding a completed step `op`.
Completed(op) == {i \in DOMAIN log : log[i].op = op /\ log[i].ok}

\* The registrations and the bound lines the steps of the call completed.
CompletedRegistrations ==
    {[base |-> RangeOf(log[i].dev).base, size |-> RangeOf(log[i].dev).size,
      dev |-> Dev(log[i].dev)] : i \in Completed("reg")}

CompletedLines == UNION {log[i].line : i \in Completed("irq")}

\* C14: when create_manager has returned an error, what was on the bus and
\* bound before the call is still there, and so is every registration and
\* every irq binding the earlier steps of the call completed.
C14_NoUnwinding ==
    (pc = Idle /\ result \in Errors) =>
        /\ pre.bus \subseteq bus
        /\ pre.irqs \subseteq irqs
        /\ bus \ pre.bus = CompletedRegistrations
        /\ {b.irq : b \in irqs \ pre.irqs} = CompletedLines
        /\ Cardinality(irqs \ pre.irqs) = Cardinality(Completed("irq"))

\* C14 witness: on x86_64 with a hypervisor handle the registration of the
\* i8042 was rejected; COM1 and COM2 are registered and lines 4 and 3 bound.
C14_Witness ==
    /\ arch = "x86_64" /\ vm_fd
    /\ pc = Idle /\ result = "BusError"
    /\ Last(log).dev = I8042
    /\ Cardinality(bus \ pre.bus) = 2
    /\ {b.irq : b \in irqs} = {4, 3}

\* --------------------------------------------------------------- C15
\* The place of a logged call in the order of create_manager: the devices
\* in the order COM1, COM2, i8042 or clock, and for each device the notifier
\* created, duplicated for the device, the device registered, the line bound.
DevRank(dev) == IF dev = COM1 THEN 1 ELSE IF dev = COM2 THEN 2 ELSE 3

OpRank(op) ==
    IF op = "new" THEN 1 ELSE IF op = "clone" THEN 2
    ELSE IF op = "reg" THEN 3 ELSE 4

Rank(e) == 4 * DevRank(e.dev) + OpRank(e.op)

\* Call `op` for device `dev` completed before position j of the log.
Before(j, dev, op) ==
    \E i \in 1..(j - 1) : log[i].dev = dev /\ log[i].op = op /\ log[i].ok

\* The calls of create_manager come in the fixed order; a line is bound only
\* after the registration of its device, a device is registered only after
\* its notifier was created, and nothing is done for COM2 or the third
\* device before COM1 is registered and, with a handle, its line bound.
FixedOrder ==
    /\ \A i, j \in DOMAIN log : i < j => Rank(log[i]) < Rank(log[j])
    /\ \A j \in DOMAIN log :
          /\ log[j].op = "irq" => Before(j, log[j].dev, "reg")
          /\ log[j].op = "reg" => Before(j, log[j].dev, "new")
          /\ log[j].dev # COM1 =>
                /\ Before(j, COM1, "reg")
                /\ vm_fd => Before(j, COM1, "irq")
          /\ DevRank(log[j].dev) = 3 =>
                /\ Before(j, COM2, "reg")
                /\ vm_fd => Before(j, COM2, "irq")

\* Every device that reached its registration was built around a duplicate
\* of the notifier created for it.
BuiltAroundDuplicate ==
    \A j \in DOMAIN log :
        log[j].op = "reg" =>
            /\ Before(j, log[j].dev, "clone")
            /\ Dev(log[j].dev) \in DOMAIN devices =>
                   devices[Dev(log[j].dev)].fd \in DOMAIN signals

\* C15: create_manager works in one fixed order: COM1, then COM2, then the
\* i8042 or clock, and for each device: notifier created, device built
\* around a duplicate of it, device registered, then (with a handle) its
\* line bound; so no line is bound before its device is registered and
\* nothing of COM2 or the third device precedes COM1's binding step.
C15_FixedOrder == FixedOrder /\ BuiltAroundDuplicate

\* --------------------------------------------------------------- C16
\* C16: on aarch64, with every key in the resource map, a line is bound for
\* the clock or a serial port only when a hypervisor handle is supplied and
\* the device's descriptor declares that line; a device whose descriptor
\* declares no line gets no binding call and create_manager does not crash.
C16_NoLineNoBinding ==
    (arch = "aarch64" /\ Keys \subseteq DOMAIN resources) =>
        /\ \A i \in IrqCalls :
              /\ vm_fd
              /\ log[i].line \subseteq get_legacy_irq(log[i].dev)
        /\ pc # Crashed

\* --------------------------------------------------------------- C17
\* The notifier device `dev` of the running call signals through.
SignalsThrough(dev) == devices[Dev(dev)].fd

\* C17: every device of a manager create_manager returned (COM1, COM2 and
\* the i8042 or clock) was built holding a duplicate of the notifier the
\* manager retains for it, so where a line is bound, the notifier bound to
\* the line and the one the device signals through are one signal.
C17_DeviceHoldsNotifier ==
    (pc = Idle /\ result = "Ok" /\ mgr.call = ncall) =>
        \A dev \in Built :
            /\ Notifier(dev) \in DOMAIN signals
            /\ SignalsThrough(dev) = Notifier(dev)
            /\ (vm_fd /\ DeclaresIrq(dev)) =>
                   [irq |-> DeclaredLine(dev), fd |-> SignalsThrough(dev)]
                       \in irqs

\* C17 on the devices built with a notifier: the serial ports and the i8042.
SerialAndResetHoldNotifier ==
    (pc = Idle /\ result = "Ok" /\ mgr.call = ncall) =>
        \A dev \in Built \ {RTC} :
            /\ Notifier(dev) \in DOMAIN signals
            /\ SignalsThrough(dev) = Notifier(dev)
            /\ (vm_fd /\ DeclaresIrq(dev)) =>
                   [irq |-> DeclaredLine(dev), fd |-> SignalsThrough(dev)]
                       \in irqs

\* --------------------------------------------------------------- C18
\* The running (or last) create_manager call is a later call on a bus that
\* holds the COM1 device of an earlier call.
EarlierCom1 ==
    \E e \in pre.bus : e.dev[2] = COM1 /\ e.dev[1] \in 1..(ncall - 1)

\* C18: a create_manager call made on a bus where an earlier call (one that
\* succeeded, or failed after registering COM1) left COM1 registered does
\* nothing but COM1's notifier steps and COM1's registration: it returns
\* BusError from that registration, or EventFd from a notifier step before
\* it, makes no irq-binding call, adds no bus registration and returns no
\* manager.
C18_SecondCallFailsAtCom1 ==
    EarlierCom1 =>
        /\ bus = pre.bus
        /\ irqs = pre.irqs
        /\ IrqCalls = {}
        /\ \A i \in DOMAIN log : log[i].dev = COM1
        /\ mgr.call # ncall
        /\ pc # Crashed
        /\ pc = Idle =>
              /\ result \in {"BusError", "EventFd"}
              /\ log # << >>
              /\ ~Last(log).ok
              /\ result = "BusError" => Last(log).op = "reg"
              /\ result = "EventFd" => Last(log).op \in {"new", "clone"}

\* C18 witness: with a hypervisor handle, a first call returned a manager
\* and a second call has returned BusError from COM1's registration.
C18_Witness ==
    /\ EarlierCom1
    /\ vm_fd
    /\ mgr.call = 1 /\ ncall = 2
    /\ pc = Idle /\ result = "BusError"
    /\ Last(log).dev = COM1 /\ Last(log).op = "reg"

====
